---------------------------- MODULE Spec2Model ----------------------------
(***************************************************************************)
(* A model of the log-mining engine of arduino-cli-cmake-wrapper:          *)
(* util.py (regular-expression matching, shell splitting), miner.py (the   *)
(* token filters, the line sorter, the line identifier and the recipe      *)
(* extractors) and parse.py (the stage segmenter).                         *)
(*                                                                         *)
(* Python strings are sequences of one-character strings, so that slicing, *)
(* regular-expression search and shell splitting are computed character by *)
(* character.  A call that returns is [kind |-> "ok", val |-> v]; a call   *)
(* that raises is [kind |-> "raise", exc |-> <exception class>, ...].      *)
(***************************************************************************)
EXTENDS Integers, Sequences, FiniteSets, TLC

VARIABLES op, args, ret

vars == <<op, args, ret>>

---------------------------------------------------------------------------
(* Bounds of the explored inputs.                                          *)

\* longest token list handed to a filter
MaxTokens == 3
\* longest line (in characters) handed to sort_line
MaxLineLen == 4
\* longest log / stage (in lines)
MaxLines == 4

---------------------------------------------------------------------------
(* Python helpers.                                                         *)

Min(a, b) == IF a < b THEN a ELSE b

Max(a, b) == IF a < b THEN b ELSE a

\* s[i:] with a 0-based i, as Python slices
SliceFrom(s, i) == SubSeq(s, Min(i, Len(s)) + 1, Len(s))

\* s[:j] with a 0-based, non-negative j
SliceTo(s, j) == SubSeq(s, 1, Min(j, Len(s)))

\* str.startswith
StartsWith(s, p) == Len(p) <= Len(s) /\ SubSeq(s, 1, Len(p)) = p

\* str.endswith
EndsWith(s, p) == Len(p) <= Len(s) /\ SubSeq(s, Len(s) - Len(p) + 1, Len(s)) = p

\* all sequences over S of length at most n
SeqsUpTo(S, n) == UNION {[1..k -> S] : k \in 0..n}

RECURSIVE Concat(_)
\* ''.join(list)
Concat(ss) == IF ss = <<>> THEN <<>> ELSE Head(ss) \o Concat(Tail(ss))

RECURSIVE JoinSp(_)
\* ' '.join(list)
JoinSp(ss) ==
    IF ss = <<>> THEN <<>>
    ELSE IF Len(ss) = 1 THEN Head(ss)
    ELSE Head(ss) \o <<" ">> \o JoinSp(Tail(ss))

\* the elements of s at the (increasing) positions idx
Pick(s, idx) == [i \in 1..Len(idx) |-> s[idx[i]]]

RECURSIVE Positions(_, _, _)
\* the positions i >= from of 1..n with Keep[i], in increasing order: the
\* index view of a list comprehension `[x for x in xs if keep(x)]`
Positions(Keep, from, n) ==
    IF from > n THEN <<>>
    ELSE (IF Keep[from] THEN <<from>> ELSE <<>>) \o Positions(Keep, from + 1, n)

Ok(v) == [kind |-> "ok", val |-> v]

Raise(e, a) == [kind |-> "raise", exc |-> e, arg |-> a]

---------------------------------------------------------------------------
(* re.compile / Pattern.search for the pattern syntax the program uses:    *)
(* literals, \-escapes, ".", "^", "$" and a bracketed character class.     *)

RECURSIVE ClassEnd(_, _)
\* the position of the "]" closing a class whose body starts at i
ClassEnd(p, i) ==
    IF i > Len(p) THEN i
    ELSE IF p[i] = "]" THEN i
    ELSE ClassEnd(p, i + 1)

RECURSIVE Compile(_, _)
\* re.compile(p), from position i on
Compile(p, i) ==
    IF i > Len(p) THEN <<>>
    ELSE IF p[i] = "\\" /\ i < Len(p)
        THEN <<[t |-> "lit", c |-> {p[i + 1]}]>> \o Compile(p, i + 2)
    ELSE IF p[i] = "."
        THEN <<[t |-> "any", c |-> {}]>> \o Compile(p, i + 1)
    ELSE IF p[i] = "^"
        THEN <<[t |-> "bol", c |-> {}]>> \o Compile(p, i + 1)
    ELSE IF p[i] = "$"
        THEN <<[t |-> "eol", c |-> {}]>> \o Compile(p, i + 1)
    ELSE IF p[i] = "["
        THEN LET e == ClassEnd(p, i + 1)
             IN  <<[t |-> "lit", c |-> {p[k] : k \in (i + 1)..(e - 1)}]>>
                 \o Compile(p, e + 1)
    ELSE <<[t |-> "lit", c |-> {p[i]}]>> \o Compile(p, i + 1)

RECURSIVE MatchAt(_, _, _, _)
\* whether the compiled pattern r, from its element k on, matches s at i
MatchAt(r, k, s, i) ==
    IF k > Len(r) THEN TRUE
    ELSE IF r[k].t = "bol" THEN i = 1 /\ MatchAt(r, k + 1, s, i)
    ELSE IF r[k].t = "eol" THEN i = Len(s) + 1 /\ MatchAt(r, k + 1, s, i)
    ELSE IF r[k].t = "any"
        THEN i <= Len(s) /\ s[i] # "\n" /\ MatchAt(r, k + 1, s, i + 1)
    ELSE i <= Len(s) /\ s[i] \in r[k].c /\ MatchAt(r, k + 1, s, i + 1)

\* re.compile(pattern).search(item) is not None
Search(pattern, item) ==
    LET r == Compile(pattern, 1)
    IN  \E i \in 1..(Len(item) + 1) : MatchAt(r, 1, item, i)

\* util.match_any
match_any(matches, item) == \E p \in matches : Search(p, item)

\* util.match_all
match_all(matches, item) == \A p \in matches : Search(p, item)

---------------------------------------------------------------------------
(* util.safe_split: shlex.split(line.strip()), POSIX rules.                *)

Whitespace == {" ", "\t", "\r", "\n"}

RECURSIVE LStrip(_)
LStrip(s) == IF s # <<>> /\ Head(s) \in Whitespace THEN LStrip(Tail(s)) ELSE s

RECURSIVE RStrip(_)
RStrip(s) ==
    IF s # <<>> /\ s[Len(s)] \in Whitespace
    THEN RStrip(SubSeq(s, 1, Len(s) - 1)) ELSE s

\* str.strip
Strip(s) == RStrip(LStrip(s))

\* shlex's lexer state: st is the state ("ws" between tokens, "word",
\* "sq"/"dq" inside quotes, "esc" after a backslash), est the state an
\* escape returns to, tok the token being built, quoted whether it saw a
\* quote, out the tokens read so far
LexInit == [st |-> "ws", est |-> "word", tok |-> <<>>, quoted |-> FALSE, out |-> <<>>]

\* the token being built, when a blank or the end of input ends it
LexEmit(l) == IF l.tok # <<>> \/ l.quoted THEN Append(l.out, l.tok) ELSE l.out

\* one step of shlex.read_token: the lexer state after the character c
LexStep(l, c) ==
    IF l.st = "ws" THEN
        IF c \in Whitespace THEN l
        ELSE IF c = "\\" THEN [l EXCEPT !.st = "esc", !.est = "word"]
        ELSE IF c = "'" THEN [l EXCEPT !.st = "sq", !.quoted = TRUE]
        ELSE IF c = "\"" THEN [l EXCEPT !.st = "dq", !.quoted = TRUE]
        ELSE [l EXCEPT !.st = "word", !.tok = <<c>>]
    ELSE IF l.st = "word" THEN
        IF c \in Whitespace
        THEN [l EXCEPT !.st = "ws", !.tok = <<>>, !.quoted = FALSE,
                       !.out = LexEmit(l)]
        ELSE IF c = "\\" THEN [l EXCEPT !.st = "esc", !.est = "word"]
        ELSE IF c = "'" THEN [l EXCEPT !.st = "sq", !.quoted = TRUE]
        ELSE IF c = "\"" THEN [l EXCEPT !.st = "dq", !.quoted = TRUE]
        ELSE [l EXCEPT !.tok = Append(l.tok, c)]
    ELSE IF l.st = "sq" THEN
        IF c = "'" THEN [l EXCEPT !.st = "word"]
        ELSE [l EXCEPT !.tok = Append(l.tok, c)]
    ELSE IF l.st = "dq" THEN
        IF c = "\"" THEN [l EXCEPT !.st = "word"]
        ELSE IF c = "\\" THEN [l EXCEPT !.st = "esc", !.est = "dq"]
        ELSE [l EXCEPT !.tok = Append(l.tok, c)]
    ELSE \* l.st = "esc"
        LET kept == IF l.est = "dq" /\ c # "\\" /\ c # "\""
                    THEN Append(l.tok, "\\") ELSE l.tok
        IN  [l EXCEPT !.st = l.est, !.tok = Append(kept, c)]

RECURSIVE LexRun(_, _, _, _)
\* the lexer state after the characters s[i..j]
LexRun(s, i, j, l) ==
    IF i > j THEN l
    ELSE LET next == LexStep(l, s[i])
         IN  IF next.st = "" THEN next ELSE LexRun(s, i + 1, j, next)

RECURSIVE Lex(_, _, _)
\* the lexer state after the characters s[i..], read in runs of 16 (the
\* runs only bound the depth of the evaluation)
Lex(s, i, l) ==
    IF i > Len(s) THEN l
    ELSE LET next == LexRun(s, i, Min(i + 15, Len(s)), l)
         IN  IF next.st = "" THEN next ELSE Lex(s, i + 16, next)

\* shlex.split(s)
shlex_split(s) ==
    LET End(l) ==
            IF l.st \in {"sq", "dq"}
            THEN Raise("ValueError", <<"No closing quotation">>)
            ELSE IF l.st = "esc"
                THEN Raise("ValueError", <<"No escaped character">>)
            ELSE IF l.st = "word" THEN Ok(LexEmit(l))
            ELSE Ok(l.out)
    IN  End(Lex(s, 1, LexInit))

\* util.safe_split
safe_split(line, ignore_errors) ==
    LET Split(r) ==
            IF r.kind = "ok" THEN r
            ELSE IF ignore_errors THEN Ok(<<>>)
            ELSE Raise("ValueError", line)
    IN  Split(shlex_split(Strip(line)))

---------------------------------------------------------------------------
(* miner.py: the token filters.                                            *)
(*                                                                         *)
(* A flag table maps a flag (a pattern) to its check: a boolean (callable  *)
(* FALSE, value truth) or a callable.  The one callable of the program is  *)
(* `lambda item: item == '-I'`, so a callable check is [callable |-> TRUE, *)
(* eq |-> t], standing for `lambda item: item == t`.                       *)

Bool(b) == [callable |-> FALSE, truth |-> b, eq |-> <<>>]

EqualTo(t) == [callable |-> TRUE, truth |-> TRUE, eq |-> t]

\* the flags of the table that take an argument when they follow `previous`
consuming_flags(flags, previous) ==
    {flag \in DOMAIN flags :
        \/ flags[flag].callable /\ previous = flags[flag].eq
        \/ ~flags[flag].callable /\ flags[flag].truth}

\* filterer with every flag of the table taken to consume an argument
flags_filterer_all_consume(flags, token, previous, negate) ==
    LET value == \/ match_any(DOMAIN flags, SliceTo(token, 2))
                 \/ match_any(DOMAIN flags, SliceTo(previous, 2))
    IN  IF negate THEN ~value ELSE value

\* filterer with negate applied to the flag test only
flags_filterer_half_negated(flags, token, previous, negate) ==
    LET isflag == match_any(DOMAIN flags, SliceTo(token, 2))
    IN  \/ (IF negate THEN ~isflag ELSE isflag)
        \/ match_any(consuming_flags(flags, previous), SliceTo(previous, 2))

\* filter_by_flags.filterer
flags_filterer(flags, token, previous, negate) ==
    LET value == \/ match_any(DOMAIN flags, SliceTo(token, 2))
                 \/ match_any(consuming_flags(flags, previous),
                              SliceTo(previous, 2))
    IN  IF negate THEN ~value ELSE value

\* the positions of the tokens filter_by_flags keeps
flags_kept(flags, tokens, negate) ==
    Positions([index \in 1..Len(tokens) |->
                  ~flags_filterer(flags, tokens[index],
                                  tokens[Max(1, index - 1)], negate)],
              1, Len(tokens))

\* miner.filter_by_flags
filter_by_flags(flags, tokens, negate) ==
    Pick(tokens, flags_kept(flags, tokens, negate))

\* filter_by_filenames.filterer
filenames_filterer(filenames, item, negate) ==
    LET value == match_any(filenames, item)
    IN  IF negate THEN ~value ELSE value

\* the positions of the tokens filter_by_filenames keeps
filenames_kept(filenames, tokens, negate) ==
    Positions([index \in 1..Len(tokens) |->
                  ~filenames_filterer(filenames, tokens[index], negate)],
              1, Len(tokens))

\* miner.filter_by_filenames
filter_by_filenames(filenames, tokens, negate) ==
    Pick(tokens, filenames_kept(filenames, tokens, negate))

---------------------------------------------------------------------------
(* String literals of the program.                                         *)

\* '-c'
S_c == <<"-", "c">>
\* '-o'
S_o == <<"-", "o">>
\* '-I'
S_I == <<"-", "I">>
\* r'\.o$'
P_o_end == <<"\\", ".", "o", "$">>
\* r'\.a$'
P_a_end == <<"\\", ".", "a", "$">>
\* r'^-l'
P_l_start == <<"^", "-", "l">>
\* '--start-group$'
P_start_group == <<"-", "-", "s", "t", "a", "r", "t", "-", "g", "r", "o", "u", "p", "$">>
\* '--end-group$'
P_end_group == <<"-", "-", "e", "n", "d", "-", "g", "r", "o", "u", "p", "$">>
\* r'core\.a'
P_core_a == <<"c", "o", "r", "e", "\\", ".", "a">>
\* r'\.o'
P_o == <<"\\", ".", "o">>

\* {'-c': False, '-o': True} of build_tokens.cleaner
BuildCleanFlags == (S_c :> Bool(FALSE)) @@ (S_o :> Bool(TRUE))

\* {'-I': lambda item: item == '-I'} of build_tokens
BuildSortFlags == (S_I :> EqualTo(S_I))

\* {'-o': True} of link_tokens.cleaner
LinkCleanFlags == (S_o :> Bool(TRUE))

\* the pattern list of link_sorter
LinkablePatterns == {P_o_end, P_a_end, P_l_start, P_start_group, P_end_group}

\* the pattern list that selects the link objects
ObjectPatterns == {P_o_end}

\* the pattern list that selects the link libraries
LibraryPatterns == {P_a_end, P_l_start, P_start_group, P_end_group}

\* the pattern list of archive_cleaner
ArchiveCleanPatterns == {P_core_a, P_o}
\* "Compiling sketch..."
S_CompilingSketch == <<"C", "o", "m", "p", "i", "l", "i", "n", "g", " ", "s", "k", "e", "t", "c", "h", ".", ".", ".">>
\* "Compiling libraries..."
S_CompilingLibraries == <<"C", "o", "m", "p", "i", "l", "i", "n", "g", " ", "l", "i", "b", "r", "a", "r", "i", "e", "s", ".", ".", ".">>
\* "Linking everything together..."
S_Linking == <<"L", "i", "n", "k", "i", "n", "g", " ", "e", "v", "e", "r", "y", "t", "h", "i", "n", "g", " ", "t", "o", "g", "e", "t", "h", "e", "r", ".", ".", ".">>
\* "ino.elf"
S_ino_elf == <<"i", "n", "o", ".", "e", "l", "f">>
\* "core.a"
S_core_a == <<"c", "o", "r", "e", ".", "a">>
\* ".o"
S_dot_o == <<".", "o">>
\* ".cpp"
S_dot_cpp == <<".", "c", "p", "p">>
\* "None"
S_None == <<"N", "o", "n", "e">>
\* "out", the --output directory
S_out == <<"o", "u", "t">>
\* "[ERROR] Problem occurred while mining Arduino."
S_ERROR == <<"[", "E", "R", "R", "O", "R", "]", " ", "P", "r", "o", "b", "l", "e", "m", " ", "o", "c", "c", "u", "r", "r", "e", "d", " ", "w", "h", "i", "l", "e", " ", "m", "i", "n", "i", "n", "g", " ", "A", "r", "d", "u", "i", "n", "o", ".">>
\* "special_input_file."
S_special_input_file == <<"s", "p", "e", "c", "i", "a", "l", "_", "i", "n", "p", "u", "t", "_", "f", "i", "l", "e", ".">>

---------------------------------------------------------------------------
(* Filters as values.  The program passes filters around as callables      *)
(* (functools.partial objects and closures); here a filter is a record     *)
(* naming the function and holding the arguments bound to it.              *)

NoFlags == [k \in {} |-> Bool(FALSE)]

\* no filter given (the default argument None of sort_line)
NoFilter == [f |-> "None", flags |-> NoFlags, pats |-> {}]

\* FilterProtocol.pass_all
PassAll == [f |-> "pass_all", flags |-> NoFlags, pats |-> {}]

\* partial(filter_by_flags, flags)
ByFlags(flags) == [f |-> "filter_by_flags", flags |-> flags, pats |-> {}]

\* partial(filter_by_filenames, filenames)
ByFilenames(filenames) ==
    [f |-> "filter_by_filenames", flags |-> NoFlags, pats |-> filenames]

\* the closures `cleaner` of build_tokens and link_tokens:
\* filter_by_filenames(filenames, filter_by_flags(flags, items))
Cleaner(filenames, flags) == [f |-> "cleaner", flags |-> flags, pats |-> filenames]

\* FilterProtocol.pass_all(tokens, negate): every token, or none under negate
pass_all(tokens, negate) == IF negate THEN <<>> ELSE tokens

\* the call filter(tokens, negate=negate)
call_filter(filter, tokens, negate) ==
    IF filter.f = "pass_all" THEN pass_all(tokens, negate)
    ELSE IF filter.f = "filter_by_flags"
        THEN filter_by_flags(filter.flags, tokens, negate)
    ELSE IF filter.f = "filter_by_filenames"
        THEN filter_by_filenames(filter.pats, tokens, negate)
    ELSE filter_by_filenames(filter.pats,
                             filter_by_flags(filter.flags, tokens, FALSE),
                             FALSE)

---------------------------------------------------------------------------
(* miner.py: the line sorter and the line identifier.                      *)

\* sort_line with the sort filter handed every cleaned token, head included
sort_line_sorts_head(line, clean, sort) ==
    LET Cleaned(tokens, sort1) ==
            IF tokens = <<>>
            THEN Raise("ArduinoCLIException", <<"No tokens available">>)
            ELSE Ok(<<tokens[1],
                      call_filter(sort1, tokens, FALSE),
                      call_filter(sort1, tokens, TRUE)>>)
        Split(split, clean1, sort1) ==
            IF split.kind # "ok" THEN split
            ELSE Cleaned(call_filter(clean1, split.val, FALSE), sort1)
    IN  Split(safe_split(line, FALSE),
              IF clean.f = "None" THEN PassAll ELSE clean,
              IF sort.f = "None" THEN PassAll ELSE sort)

\* miner.sort_line; the result tuple is <<head, sorted, negated>>.  Split is
\* the body after `safe_split(line)`, Cleaned the body after `clean(...)`
sort_line(line, clean, sort) ==
    LET Cleaned(tokens, sort1) ==
            IF tokens = <<>>
            THEN Raise("ArduinoCLIException", <<"No tokens available">>)
            ELSE Ok(<<tokens[1],
                      call_filter(sort1, SliceFrom(tokens, 1), FALSE),
                      call_filter(sort1, SliceFrom(tokens, 1), TRUE)>>)
        Split(split, clean1, sort1) ==
            IF split.kind # "ok" THEN split
            ELSE Cleaned(call_filter(clean1, split.val, FALSE), sort1)
    IN  Split(safe_split(line, FALSE),
              IF clean.f = "None" THEN PassAll ELSE clean,
              IF sort.f = "None" THEN PassAll ELSE sort)

\* stages.get(stage, [])
stage_get(stages, stage) ==
    IF stage \in DOMAIN stages THEN stages[stage] ELSE <<>>

\* the stage's lines that satisfy match = partial(match_all, patterns)
matching_lines(stage_lines, patterns) ==
    Pick(stage_lines,
         Positions([i \in 1..Len(stage_lines) |->
                       match_all(patterns, stage_lines[i])],
                   1, Len(stage_lines)))

\* identify_line without the test for several matching lines
identify_line_picks_first(stage, stages, patterns, single) ==
    LET Found(matching) ==
            IF matching = <<>> THEN Raise("MissingStageException", <<stage>>)
            ELSE Ok(matching[1])
    IN  Found(matching_lines(stage_get(stages, stage), patterns))

\* miner.identify_line, with match = partial(match_all, patterns)
identify_line(stage, stages, patterns, single) ==
    LET Found(matching) ==
            IF matching = <<>> THEN Raise("MissingStageException", <<stage>>)
            ELSE IF single /\ Len(matching) > 1
                THEN Raise("MultipleInvocationException", <<>>)
            ELSE Ok(matching[1])
    IN  Found(matching_lines(stage_get(stages, stage), patterns))

\* miner.identify_link_line
identify_link_line(stages, source_objects) ==
    identify_line("LINK", stages, source_objects, TRUE)

\* miner.identify_archive_line
identify_archive_line(stages) ==
    identify_line("CORE", stages, {P_core_a}, FALSE)

---------------------------------------------------------------------------
(* miner.py: the recipe extractors.                                        *)

\* the Source enumeration, in iteration order
SourceOrder == <<"S", "C", "CPP", "INO">>

Source == {SourceOrder[i] : i \in 1..Len(SourceOrder)}

RECURSIVE LastSlash(_, _)
\* the position of the last "/" of s[1..i], 0 when there is none
LastSlash(s, i) ==
    IF i = 0 THEN 0 ELSE IF s[i] = "/" THEN i ELSE LastSlash(s, i - 1)

\* Path(p).name
path_name(p) == SubSeq(p, LastSlash(p, Len(p)) + 1, Len(p))

\* str(Path(p).parent)
path_parent(p) ==
    LET k == LastSlash(p, Len(p))
    IN  IF k = 0 THEN <<".">>
        ELSE IF k = 1 THEN <<"/">>
        ELSE SubSeq(p, 1, k - 1)

RECURSIVE str_replace(_, _, _)
\* s.replace(old, new), old not empty
str_replace(s, old, new) ==
    IF s = <<>> THEN <<>>
    ELSE IF StartsWith(s, old)
        THEN new \o str_replace(SliceFrom(s, Len(old)), old, new)
    ELSE <<Head(s)>> \o str_replace(Tail(s), old, new)

\* miner.real_source_names
real_source_names(source_mappings) ==
    [source \in DOMAIN source_mappings |->
        IF source # "INO" THEN path_name(source_mappings[source])
        ELSE path_name(source_mappings[source]) \o S_dot_cpp]

\* str(real_names.get(source)) inside an f-string
name_or_None(real_names, source) ==
    IF source \in DOMAIN real_names THEN real_names[source]
    ELSE S_None

RECURSIVE first_raise(_, _)
\* the first exception a comprehension over the sources raises, if any
first_raise(results, order) ==
    IF order = <<>> THEN Ok(<<>>)
    ELSE IF results[Head(order)].kind = "raise" THEN results[Head(order)]
    ELSE first_raise(results, Tail(order))

\* '[ |$]', the suffix of the compile-line pattern
P_name_bound == <<"[", " ", "|", "$", "]">>

\* the include paths of build_tokens: the -I tokens other than a bare -I,
\* with '-I' replaced by ''
include_paths_of(negated) ==
    LET kept == Positions([i \in 1..Len(negated) |-> negated[i] # S_I],
                          1, Len(negated))
    IN  [i \in 1..Len(kept) |->
            str_replace(negated[kept[i]], S_I, <<>>)]

\* miner.build_tokens; the result is <<tools, include_paths, non_include_paths>>.
\* Lines is the body after the comprehension source_lines, Sorted the body
\* after the comprehension sorted_source_lines
build_tokens(stages, sources) ==
    LET Sorted(sorted_source_lines, failed) ==
            IF failed.kind = "raise" THEN failed
            ELSE Ok(<<[source \in Source |-> sorted_source_lines[source].val[1]],
                      [source \in Source |->
                          include_paths_of(sorted_source_lines[source].val[3])],
                      [source \in Source |-> sorted_source_lines[source].val[2]]>>)
        SortAll(sorted_source_lines) ==
            Sorted(sorted_source_lines,
                   first_raise(sorted_source_lines, SourceOrder))
        Lines(source_lines, failed, cleaner, sorter) ==
            IF failed.kind = "raise" THEN failed
            ELSE SortAll([source \in Source |->
                             sort_line(source_lines[source].val, cleaner, sorter)])
        Identified(source_lines, real_names) ==
            Lines(source_lines, first_raise(source_lines, SourceOrder),
                  Cleaner({real_names[k] : k \in DOMAIN real_names},
                          BuildCleanFlags),
                  ByFlags(BuildSortFlags))
        Named(real_names) ==
            Identified([source \in Source |->
                           identify_line("COMPILATION", stages,
                                         {name_or_None(real_names, source)
                                              \o P_name_bound},
                                         TRUE)],
                       real_names)
    IN  Named(real_source_names(sources))

\* the object_names of link_tokens and post_link_lines
object_names_of(sources) ==
    LET real_names == real_source_names(sources)
    IN  {real_names[k] \o S_dot_o : k \in DOMAIN real_names}

\* miner.sketch_cache
sketch_cache(stages) ==
    LET Tokens(core_tokens) ==
            IF core_tokens = <<>>
            THEN Raise("AssertionError", <<"Could not find core.a">>)
            ELSE Ok(path_parent(path_parent(core_tokens[1])))
        Split(split) ==
            IF split.kind = "raise" THEN split
            ELSE Tokens(Pick(split.val,
                             Positions([i \in 1..Len(split.val) |->
                                           EndsWith(split.val[i], S_core_a)],
                                       1, Len(split.val))))
        Lines(core_lines) ==
            IF core_lines = <<>>
            THEN Raise("MissingStageException", <<"CORE">>)
            ELSE Split(safe_split(core_lines[Len(core_lines)], FALSE))
    IN  Lines(stage_get(stages, "CORE"))

\* link_tokens with a cleaner that leaves the source objects in place
link_tokens_keeps_source_objects(stages, sources) ==
    LET Sorted(sorted) ==
            IF sorted.kind = "raise" THEN sorted
            ELSE Ok(<<sorted.val[1],
                      sorted.val[2],
                      filter_by_filenames(ObjectPatterns, sorted.val[3], TRUE),
                      filter_by_filenames(LibraryPatterns, sorted.val[3], TRUE)>>)
        Identified(link_line) ==
            IF link_line.kind = "raise" THEN link_line
            ELSE Sorted(sort_line(link_line.val,
                                  Cleaner({}, LinkCleanFlags),
                                  ByFilenames(LinkablePatterns)))
    IN  Identified(identify_link_line(stages, object_names_of(sources)))

\* miner.link_tokens; the result is
\* <<linker, link_flags, link_objects, link_libraries>>
link_tokens(stages, sources) ==
    LET Sorted(sorted) ==
            IF sorted.kind = "raise" THEN sorted
            ELSE Ok(<<sorted.val[1],
                      sorted.val[2],
                      filter_by_filenames(ObjectPatterns, sorted.val[3], TRUE),
                      filter_by_filenames(LibraryPatterns, sorted.val[3], TRUE)>>)
        Identified(link_line, object_names) ==
            IF link_line.kind = "raise" THEN link_line
            ELSE Sorted(sort_line(link_line.val,
                                  Cleaner(object_names, LinkCleanFlags),
                                  ByFilenames(LinkablePatterns)))
        Named(object_names) ==
            Identified(identify_link_line(stages, object_names), object_names)
    IN  Named(object_names_of(sources))

\* list.index(x): the 1-based position of the first element equal to x,
\* 0 when there is none (where Python raises ValueError)
list_index(xs, x) ==
    IF \E i \in 1..Len(xs) : xs[i] = x
    THEN CHOOSE i \in 1..Len(xs) : xs[i] = x /\ \A j \in 1..(i - 1) : xs[j] # x
    ELSE 0

\* miner.post_link_lines
post_link_lines(stages, sources) ==
    LET Identified(link_line, stage_lines) ==
            IF link_line.kind = "raise" THEN link_line
            ELSE Ok(SliceFrom(stage_lines, list_index(stage_lines, link_line.val)))
    IN  Identified(identify_link_line(stages, object_names_of(sources)),
                   stage_get(stages, "LINK"))

\* miner.archive_tokens; the result is <<archiver, archive_flags>>
archive_tokens(stages) ==
    LET Sorted(sorted) ==
            IF sorted.kind = "raise" THEN sorted
            ELSE IF sorted.val[3] # <<>>
                THEN Raise("AssertionError", <<"Sort list not empty">>)
            ELSE Ok(<<sorted.val[1], sorted.val[2]>>)
        Identified(archive_line) ==
            IF archive_line.kind = "raise" THEN archive_line
            ELSE Sorted(sort_line(archive_line.val,
                                  ByFilenames(ArchiveCleanPatterns), NoFilter))
    IN  Identified(identify_archive_line(stages))

---------------------------------------------------------------------------
(* parse.py: the stage segmenter.                                          *)

\* xs[a:b] for a 0-based a >= 0 and a 0-based b that may be negative
py_slice(xs, a, b) ==
    LET stop == IF b < 0 THEN Max(Len(xs) + b, 0) ELSE Min(b, Len(xs))
    IN  SubSeq(xs, a + 1, stop)

\* parse.lines_between; has_end is FALSE when end_phrase is None
lines_between(output_lines, start_phrase, has_end, end_phrase) ==
    LET start == list_index(output_lines, start_phrase)
        stop == list_index(output_lines, end_phrase)
    IN  IF start = 0 THEN Raise("ValueError", start_phrase)
        ELSE IF has_end /\ stop = 0 THEN Raise("ValueError", end_phrase)
        ELSE Ok(py_slice(output_lines, (start - 1) + 1,
                         IF has_end THEN stop - 1 ELSE -1))

\* the tokens of a list that satisfy item.endswith(suffix)
ending_with(tokens, suffix) ==
    Pick(tokens,
         Positions([i \in 1..Len(tokens) |-> EndsWith(tokens[i], suffix)],
                   1, Len(tokens)))

\* parse_linker_commands.filter_function
linker_filter_function(item, core_path) ==
    /\ item # S_o
    /\ ~EndsWith(item, S_ino_elf)
    /\ ~EndsWith(item, S_dot_o)
    /\ ~EndsWith(item, S_core_a)
    /\ ~EndsWith(item, path_parent(path_parent(core_path)))

\* parse.parse_linker_commands; the result is
\* <<core_path, necessary_command_values>>.  `if not core_library` tests a
\* filter object, which is always true, so the lookup of its first element
\* is what fails when no token ends in core.a
parse_linker_commands(output_lines) ==
    LET Core(tokens, core_library) ==
            IF core_library = <<>>
            THEN Raise("IndexError", <<"list index out of range">>)
            ELSE Ok(<<core_library[1],
                      Pick(tokens,
                           Positions([i \in 1..Len(tokens) |->
                                         linker_filter_function(
                                             tokens[i], core_library[1])],
                                     1, Len(tokens)))>>)
        Split(linker_shell_split) ==
            IF linker_shell_split.kind = "raise" THEN linker_shell_split
            ELSE Core(linker_shell_split.val,
                      ending_with(linker_shell_split.val, S_core_a))
        Linking(linking_lines) ==
            IF linking_lines.kind = "raise" THEN linking_lines
            ELSE IF linking_lines.val = <<>>
                THEN Raise("Exception", <<"Failed to find linking lines">>)
            ELSE Split(shlex_split(linking_lines.val[1]))
    IN  Linking(lines_between(output_lines, S_Linking, FALSE, <<>>))

\* `sub in s` for strings
Contains(s, sub) ==
    \E i \in 0..(Len(s) - Len(sub)) : SubSeq(s, i + 1, i + Len(sub)) = sub

\* parse_compilation_commands.filter_function
compile_filter_function(item, filename) ==
    /\ item # S_o
    /\ ~EndsWith(item, filename)
    /\ ~EndsWith(item, filename \o S_dot_o)
    /\ item # S_c

\* the loop body of parse_compilation_commands without the assertion of
\* lines 76-78
compilation_command_unchecked(compilation_lines, filename) ==
    LET Split(shell_split) ==
            IF shell_split.kind = "raise" THEN shell_split
            ELSE Ok(Pick(shell_split.val,
                         Positions([i \in 1..Len(shell_split.val) |->
                                       compile_filter_function(
                                           shell_split.val[i], filename)],
                                   1, Len(shell_split.val))))
        Matching(matching) ==
            IF matching = <<>>
            THEN Raise("IndexError", <<"list index out of range">>)
            ELSE Split(shlex_split(matching[1]))
    IN  Matching(Pick(compilation_lines,
                      Positions([i \in 1..Len(compilation_lines) |->
                                    Contains(compilation_lines[i],
                                             filename \o S_dot_o)],
                                1, Len(compilation_lines))))

\* one iteration of the loop of parse_compilation_commands: the command of
\* the file named filename.  `if not matching_lines` tests a filter object,
\* which is always true, so the lookup of its first element is what fails
\* when no line contains '<filename>.o'
compilation_command(compilation_lines, filename) ==
    LET Checked(necessary_command_values, expected_command_values) ==
            IF necessary_command_values = expected_command_values
            THEN Ok(necessary_command_values)
            ELSE Raise("AssertionError",
                       <<"Necessary arguments are usually all but the last 3">>)
        Split(shell_split) ==
            IF shell_split.kind = "raise" THEN shell_split
            ELSE Checked(Pick(shell_split.val,
                              Positions([i \in 1..Len(shell_split.val) |->
                                            compile_filter_function(
                                                shell_split.val[i], filename)],
                                        1, Len(shell_split.val))),
                         py_slice(shell_split.val, 0, 1)
                             \o py_slice(shell_split.val, 2, -3))
        Matching(matching) ==
            IF matching = <<>>
            THEN Raise("IndexError", <<"list index out of range">>)
            ELSE Split(shlex_split(matching[1]))
    IN  Matching(Pick(compilation_lines,
                      Positions([i \in 1..Len(compilation_lines) |->
                                    Contains(compilation_lines[i],
                                             filename \o S_dot_o)],
                                1, Len(compilation_lines))))

\* parse.parse_compilation_commands; mapping is the dictionary as the
\* sequence of its items <<file_type, path>>, the result the dictionary
\* output_mapping as a function
parse_compilation_commands(output_lines, mapping) ==
    LET Collected(commands, failure) ==
            IF failure.kind = "raise" THEN failure
            ELSE Ok([file_type \in {mapping[i][1] : i \in 1..Len(mapping)} |->
                        LET i == CHOOSE i \in 1..Len(mapping) :
                                     /\ mapping[i][1] = file_type
                                     /\ \A j \in (i + 1)..Len(mapping) :
                                            mapping[j][1] # file_type
                        IN  commands[i].val])
        Commands(commands) ==
            Collected(commands,
                      first_raise(commands, [i \in 1..Len(mapping) |-> i]))
        Between(compilation_lines) ==
            IF compilation_lines.kind = "raise" THEN compilation_lines
            ELSE Commands([i \in 1..Len(mapping) |->
                              compilation_command(compilation_lines.val,
                                                  path_name(mapping[i][2]))])
    IN  Between(lines_between(output_lines, S_CompilingSketch, TRUE,
                              S_CompilingLibraries))

---------------------------------------------------------------------------
(* sketch.py and cli.py: the entry point.                                  *)

\* directory / name
path_join(directory, name) == directory \o <<"/">> \o name

\* the extensions of the probe sources, ['S', 'c', 'cpp']
Extensions == << <<"S">>, <<"c">>, <<"c", "p", "p">> >>

\* sketch.make_sketch: the mappings it returns
make_sketch(directory) ==
    [i \in 1..Len(Extensions) |->
        <<Extensions[i],
          path_join(directory, S_special_input_file \o Extensions[i])>>]

\* s.split(c) for a one-character separator c
str_split(s, c) ==
    LET cuts == {i \in 1..Len(s) : s[i] = c}
        Cut(k) ==
            IF k = 0 THEN 0
            ELSE IF k > Cardinality(cuts) THEN Len(s) + 1
            ELSE CHOOSE i \in cuts : Cardinality({j \in cuts : j < i}) = k - 1
    IN  [k \in 1..(Cardinality(cuts) + 1) |->
            SubSeq(s, Cut(k - 1) + 1, Cut(k) - 1)]

RECURSIVE str_join(_, _)
\* sep.join(list)
str_join(sep, ss) ==
    IF ss = <<>> THEN <<>>
    ELSE IF Len(ss) = 1 THEN Head(ss)
    ELSE Head(ss) \o sep \o str_join(sep, Tail(ss))

\* main with a handler that reports nothing and falls through to return 0
main_failed_silently(exc, printed) ==
    [status |-> 0, stderr |-> <<>>, stdout |-> printed]

\* the outcome of main when the handler of line 84 runs: the message on
\* standard error, status 1, and what was printed before
main_failed(exc, printed) ==
    [status |-> 1, stderr |-> <<[text |-> S_ERROR, exc |-> exc]>>,
     stdout |-> printed]

RECURSIVE main_print(_, _, _, _)
\* the print calls of lines 78-83, one field per call; fields are the
\* values still to print, each the list whose element 0 and whose joined
\* rest are printed
main_print(fields, printed, i, n) ==
    IF i > n THEN [status |-> 0, stderr |-> <<>>, stdout |-> printed]
    ELSE IF fields[i] = <<>>
        THEN main_failed(Raise("IndexError", <<"list index out of range">>),
                         printed)
    ELSE main_print(fields,
                    printed \o <<fields[i][1],
                                 str_join(<<"|">>, Tail(fields[i]))>>,
                    i + 1, n)

\* cli.main for well-formed arguments (--output out); sketch, compiled and
\* copied are the outcomes of make_sketch, of compile_sketch (its standard
\* output) and of shutil.copy2.  The result is the exit status and what was
\* written to standard error and standard output
main(sketch, compiled, copied) ==
    LET Copied(command_mappings, linked) ==
            IF copied.kind = "raise" THEN main_failed(copied, <<>>)
            ELSE main_print([i \in 1..(Len(Extensions) + 1) |->
                                IF i <= Len(Extensions)
                                THEN command_mappings[Extensions[i]]
                                ELSE linked[2]],
                            <<path_join(S_out, path_name(linked[1]))>>,
                            1, Len(Extensions) + 1)
        Linked(command_mappings, linked) ==
            IF linked.kind = "raise" THEN main_failed(linked, <<>>)
            ELSE Copied(command_mappings, linked.val)
        Parsed(output_lines, command_mappings) ==
            IF command_mappings.kind = "raise"
            THEN main_failed(command_mappings, <<>>)
            ELSE Linked(command_mappings.val,
                        parse_linker_commands(output_lines))
        Lines(mappings, output_lines) ==
            Parsed(output_lines,
                   parse_compilation_commands(output_lines, mappings))
    IN  IF sketch.kind = "raise" THEN main_failed(sketch, <<>>)
        ELSE IF compiled.kind = "raise" THEN main_failed(compiled, <<>>)
        ELSE Lines(sketch.val, str_split(compiled.val, "\n"))

---------------------------------------------------------------------------
(* The inputs the calls are explored on.                                   *)

\* a table with a never-consuming, an always-consuming and a conditional flag
MixedFlags == BuildCleanFlags @@ BuildSortFlags

FlagTables == {BuildCleanFlags, BuildSortFlags, LinkCleanFlags, MixedFlags}

\* tokens for the flag filter: flags, attached forms, a plain word and a
\* token shorter than a flag
FlagTokenPool ==
    {S_c, S_o, S_I, <<"-", "I", "a">>, <<"a">>, <<"-">>}

\* tokens for the filename filter
NameTokenPool ==
    {<<"a", ".", "o">>, <<"a", ".", "a">>, <<"-", "l", "m">>, <<"a", "x", "o">>,
     <<"c", "o", "r", "e", ".", "a">>, <<"-", "W">>}

\* 'a.o', a source object name used as a pattern
P_a_dot_o == <<"a", ".", "o">>

PatternSets ==
    {LinkablePatterns, ObjectPatterns, LibraryPatterns, ArchiveCleanPatterns,
     {P_a_dot_o}, {}}

\* the characters of the lines handed to sort_line: a word character, a
\* blank, a quote, an escape, and the characters of the flag -c
LineAlphabet == {"a", " ", "'", "\\", "-", "c"}

\* the clean filters sort_line is called with
CleanFilters == <<NoFilter, Cleaner({}, BuildCleanFlags)>>

\* the sort filters sort_line is called with
SortFilters == <<NoFilter, ByFlags(BuildCleanFlags)>>

\* longest run of extra tokens put on an explored compile or link line
MaxExtra == 2

\* most compile lines of the C source in an explored log
MaxCompileLines == 2

\* "avr-gcc"
T_avr_gcc == <<"a", "v", "r", "-", "g", "c", "c">>
\* "avr-g++"
T_avr_gpp == <<"a", "v", "r", "-", "g", "+", "+">>
\* "special_input_file.S"
T_special_S == <<"s", "p", "e", "c", "i", "a", "l", "_", "i", "n", "p", "u", "t", "_", "f", "i", "l", "e", ".", "S">>
\* "special_input_file.c"
T_special_c == <<"s", "p", "e", "c", "i", "a", "l", "_", "i", "n", "p", "u", "t", "_", "f", "i", "l", "e", ".", "c">>
\* "special_input_file.cpp"
T_special_cpp == <<"s", "p", "e", "c", "i", "a", "l", "_", "i", "n", "p", "u", "t", "_", "f", "i", "l", "e", ".", "c", "p", "p">>
\* "t.ino"
T_sketch_ino == <<"t", ".", "i", "n", "o">>
\* "t.ino.cpp"
T_sketch_cpp == <<"t", ".", "i", "n", "o", ".", "c", "p", "p">>
\* "sketch.ino.elf"
T_sketch_elf == <<"s", "k", "e", "t", "c", "h", ".", "i", "n", "o", ".", "e", "l", "f">>
\* "t/"
T_dir == <<"t", "/">>
\* "-Iinclude1"
T_Iinclude1 == <<"-", "I", "i", "n", "c", "l", "u", "d", "e", "1">>
\* "-Iinclude2"
T_Iinclude2 == <<"-", "I", "i", "n", "c", "l", "u", "d", "e", "2">>
\* "include1"
T_include1 == <<"i", "n", "c", "l", "u", "d", "e", "1">>
\* "include2"
T_include2 == <<"i", "n", "c", "l", "u", "d", "e", "2">>
\* "-Ilib-IO"
T_Ilib_IO == <<"-", "I", "l", "i", "b", "-", "I", "O">>
\* "-g"
T_g == <<"-", "g">>
\* "a.o"
T_a_o == <<"a", ".", "o">>
\* "b.o"
T_b_o == <<"b", ".", "o">>
\* "b/c/core.a"
T_cache_core == <<"b", "/", "c", "/", "c", "o", "r", "e", ".", "a">>
\* "-lm"
T_lm == <<"-", "l", "m">>
\* "--start-group"
T_start_group == <<"-", "-", "s", "t", "a", "r", "t", "-", "g", "r", "o", "u", "p">>
\* "--end-group"
T_end_group == <<"-", "-", "e", "n", "d", "-", "g", "r", "o", "u", "p">>
\* "-l:c.o", a library named by its file name
T_l_crt_o == <<"-", "l", ":", "c", ".", "o">>
\* "-Wl,--start-group"
T_Wl_start_group == <<"-", "W", "l", ",", "-", "-", "s", "t", "a", "r", "t", "-", "g", "r", "o", "u", "p">>
\* "-Wl,--gc-sections"
T_gc == <<"-", "W", "l", ",", "-", "-", "g", "c", "-", "s", "e", "c", "t", "i", "o", "n", "s">>
\* "avr-objcopy"
T_objcopy == <<"a", "v", "r", "-", "o", "b", "j", "c", "o", "p", "y">>
\* "-O"
T_O == <<"-", "O">>
\* "ihex"
T_ihex == <<"i", "h", "e", "x">>
\* "sketch.hex"
T_sketch_hex == <<"s", "k", "e", "t", "c", "h", ".", "h", "e", "x">>
\* "avr-size"
T_size == <<"a", "v", "r", "-", "s", "i", "z", "e">>
\* "-A"
T_A == <<"-", "A">>
\* "ld"
T_ld == <<"l", "d">>

\* the probe sketch: one file per source kind, in directory t/
ProbeSources ==
    ("S" :> T_dir \o T_special_S) @@ ("C" :> T_dir \o T_special_c)
    @@ ("CPP" :> T_dir \o T_special_cpp) @@ ("INO" :> T_dir \o T_sketch_ino)

\* a compile line: <tool> -c <extra> <file> -o <file>.o, the order of the
\* toolchain's log, or <tool> -c -o <file>.o <extra> <file>
CompileLine(tool, extra, name, file_last) ==
    JoinSp(IF file_last
           THEN <<tool, S_c, S_o, name \o S_dot_o>> \o extra \o <<name>>
           ELSE <<tool, S_c>> \o extra \o <<name, S_o, name \o S_dot_o>>)

\* avr-gcc -c -o special_input_file.c.o -Iinclude1 -Iinclude2 special_input_file.c
ExampleCompileLine ==
    CompileLine(T_avr_gcc, <<T_Iinclude1, T_Iinclude2>>, T_special_c, TRUE)

\* the tokens put between the tool and the file of the C compile line
CompileExtraPool == {T_Iinclude1, S_I, T_include2, T_g, T_Ilib_IO}

CompileExtras ==
    SeqsUpTo(CompileExtraPool, MaxExtra) \cup {<<T_Iinclude1, T_Iinclude2>>}

\* a compilation stage with one compile line per source kind
CompilationStage(c_extra, c_file_last) ==
    <<CompileLine(T_avr_gcc, <<T_g>>, T_special_S, FALSE),
      CompileLine(T_avr_gcc, c_extra, T_special_c, c_file_last),
      CompileLine(T_avr_gpp, <<T_Iinclude1>>, T_special_cpp, FALSE),
      CompileLine(T_avr_gpp, <<>>, T_sketch_cpp, FALSE)>>

\* the objects of the probe sources, as the link line names them
ProbeObjects ==
    <<T_dir \o T_special_S \o S_dot_o, T_dir \o T_special_c \o S_dot_o,
      T_dir \o T_special_cpp \o S_dot_o, T_dir \o T_sketch_cpp \o S_dot_o>>

\* a link line: <linker> -o <elf> <objects> <libraries>
LinkLine(linker, objects, rest) ==
    JoinSp(<<linker, S_o, T_sketch_elf>> \o objects \o rest)

\* a.o b.o core.a -lm --start-group --end-group
ExampleLinkRest ==
    <<T_a_o, T_b_o, S_core_a, T_lm, T_start_group, T_end_group>>

LinkRestPool ==
    {T_a_o, T_cache_core, T_lm, T_end_group, T_gc, T_l_crt_o, T_Wl_start_group}

LinkRests == SeqsUpTo(LinkRestPool, MaxExtra) \cup {ExampleLinkRest}

\* the post-link lines of the log
PostLinkLines ==
    <<JoinSp(<<T_objcopy, T_O, T_ihex, T_sketch_elf, T_sketch_hex>>),
      JoinSp(<<T_size, T_A, T_sketch_elf>>)>>

\* a link stage: the link line, then n post-link lines
LinkStage(with_probe_objects, rest, n) ==
    <<LinkLine(T_avr_gcc,
               IF with_probe_objects THEN ProbeObjects ELSE <<>>, rest)>>
    \o SubSeq(PostLinkLines, 1, n)

\* the lines of the stages handed to identify_line
StageLinePool ==
    {JoinSp(<<T_ld, T_a_o, T_b_o>>), JoinSp(<<T_ld, T_a_o>>), T_ld}

\* the match predicates handed to identify_line
MatchPatterns == {{T_a_o}, {T_a_o, T_b_o}}

\* the lines of the logs handed to parse.py
LogLinePool ==
    {S_CompilingSketch, S_CompilingLibraries, S_Linking,
     JoinSp(<<T_ld, S_o, T_sketch_elf, T_a_o, T_cache_core, T_lm>>),
     JoinSp(<<T_size, T_A>>)}

\* the lines of the core stages handed to sketch_cache and archive_tokens:
\*   1  "avr-ar rcs b/c/core.a a.o", the archiver call
\*   2  "Archiving in: d/e/core.a", the line that names the cached archive
\*   3  "avr-size -A", a line without the archive
\*   4  "x.org/ar rcs b/c/core.a a.o", the call of an archiver installed
\*      under a directory whose name contains ".o"
CoreLines ==
    <<<<"a", "v", "r", "-", "a", "r", " ", "r", "c", "s", " ", "b", "/", "c", "/", "c", "o", "r", "e", ".", "a", " ", "a", ".", "o">>,
      <<"A", "r", "c", "h", "i", "v", "i", "n", "g", " ", "i", "n", ":", " ", "d", "/", "e", "/", "c", "o", "r", "e", ".", "a">>,
      <<"a", "v", "r", "-", "s", "i", "z", "e", " ", "-", "A">>,
      <<"x", ".", "o", "r", "g", "/", "a", "r", " ", "r", "c", "s", " ", "b", "/", "c", "/", "c", "o", "r", "e", ".", "a", " ", "a", ".", "o">>>>

\* the lines naming the object of the C source in the logs handed to
\* parse_compilation_commands:
\*   1  <tool> -c <flag> <file> -o <file>.o, the toolchain's form
\*   2  <tool> -c -o <file>.o <flag> <file>, the file last
\*   3  <tool> <flag> -c <file> -o <file>.o, the flag before -c
\*   4  <tool> -c <file> -o <file>.o <flag>, the flag last
CCompileLines ==
    <<CompileLine(T_avr_gcc, <<T_g>>, T_dir \o T_special_c, FALSE),
      CompileLine(T_avr_gcc, <<T_g>>, T_dir \o T_special_c, TRUE),
      JoinSp(<<T_avr_gcc, T_g, S_c, T_dir \o T_special_c, S_o,
               T_dir \o T_special_c \o S_dot_o>>),
      JoinSp(<<T_avr_gcc, S_c, T_dir \o T_special_c, S_o,
               T_dir \o T_special_c \o S_dot_o, T_g>>)>>

\* a log whose compilation stage holds the S line, the given C lines and
\* the C++ line
CompileLog(c_lines) ==
    <<S_CompilingSketch,
      CompileLine(T_avr_gcc, <<T_g>>, T_dir \o T_special_S, FALSE)>>
    \o c_lines
    \o <<CompileLine(T_avr_gpp, <<T_Iinclude1>>, T_dir \o T_special_cpp, FALSE),
         S_CompilingLibraries>>

\* the temporary directory main works in
MainDirectory == <<"t">>

\* the compile lines of a log: the S and C++ lines in the toolchain's form
\* <tool> -c <flags> <file> -o <file>.o, the C line in that form, with the
\* file last, or absent
MainCompileLines(c_form) ==
    <<CompileLine(T_avr_gcc, <<T_g>>, T_dir \o T_special_S, FALSE)>>
    \o (IF c_form = "absent" THEN <<>>
        ELSE <<CompileLine(T_avr_gcc, <<T_Iinclude1>>, T_dir \o T_special_c,
                           c_form = "file_last")>>)
    \o <<CompileLine(T_avr_gpp, <<T_Iinclude1>>, T_dir \o T_special_cpp, FALSE)>>

\* the link line of a log: the usual one, one made of inputs and outputs
\* only, and one without the core archive
MainLinkLine(l_form) ==
    IF l_form = "bare" THEN JoinSp(<<S_o, T_sketch_elf, T_a_o, T_cache_core>>)
    ELSE IF l_form = "no_core" THEN LinkLine(T_avr_gcc, <<T_a_o>>, <<T_lm>>)
    ELSE LinkLine(T_avr_gcc, <<T_a_o>>, <<T_cache_core, T_lm>>)

\* the standard output of a toolchain run: the lines joined by newlines,
\* with or without a final newline, n post-link lines after the link line
MainLog(c_form, l_form, n, final_newline) ==
    str_join(<<"\n">>,
             <<S_CompilingSketch>> \o MainCompileLines(c_form)
             \o <<S_CompilingLibraries>>
             \o (IF l_form = "no_marker" THEN <<>> ELSE <<S_Linking>>)
             \o <<MainLinkLine(l_form)>> \o SubSeq(PostLinkLines, 1, n))
    \o (IF final_newline THEN <<"\n">> ELSE <<>>)

---------------------------------------------------------------------------
(* The state machine: one call of one operation on inputs of the bounded   *)
(* sets; op names the operation called, args its arguments, ret its        *)
(* outcome.                                                                *)

Init == op = "idle" /\ args = <<>> /\ ret = <<>>

Call_filter_by_flags ==
    /\ op = "idle"
    /\ \E flags \in FlagTables, tokens \in SeqsUpTo(FlagTokenPool, MaxTokens),
          negate \in BOOLEAN :
        /\ op' = "filter_by_flags"
        /\ args' = [flags |-> flags, tokens |-> tokens, negate |-> negate]
        /\ ret' = Ok(filter_by_flags(flags, tokens, negate))

Call_filter_by_filenames ==
    /\ op = "idle"
    /\ \E filenames \in PatternSets,
          tokens \in SeqsUpTo(NameTokenPool, MaxTokens), negate \in BOOLEAN :
        /\ op' = "filter_by_filenames"
        /\ args' = [filenames |-> filenames, tokens |-> tokens, negate |-> negate]
        /\ ret' = Ok(filter_by_filenames(filenames, tokens, negate))

Call_sort_line ==
    /\ op = "idle"
    /\ \E line \in SeqsUpTo(LineAlphabet, MaxLineLen),
          c \in 1..Len(CleanFilters), s \in 1..Len(SortFilters) :
        /\ op' = "sort_line"
        /\ args' = [line |-> line, clean |-> CleanFilters[c], sort |-> SortFilters[s]]
        /\ ret' = sort_line(line, CleanFilters[c], SortFilters[s])

Call_identify_line ==
    /\ op = "idle"
    /\ \E stage \in {"COMPILATION", "LINK"}, present \in BOOLEAN,
          lines \in SeqsUpTo(StageLinePool, MaxLines),
          patterns \in MatchPatterns, single \in BOOLEAN :
        /\ op' = "identify_line"
        /\ args' = [stage |-> stage,
                    stages |-> IF present
                               THEN (stage :> lines) @@ ("CORE" :> <<T_ld>>)
                               ELSE ("CORE" :> <<T_ld>>),
                    patterns |-> patterns, single |-> single]
        /\ ret' = identify_line(stage, args'.stages, patterns, single)

Call_build_tokens ==
    /\ op = "idle"
    /\ \E c_extra \in CompileExtras, c_file_last \in BOOLEAN :
        /\ op' = "build_tokens"
        /\ args' = [stages |-> ("COMPILATION" :>
                                    CompilationStage(c_extra, c_file_last)),
                    sources |-> ProbeSources]
        /\ ret' = build_tokens(args'.stages, ProbeSources)

Call_link_tokens ==
    /\ op = "idle"
    /\ \E with_probe_objects \in BOOLEAN, rest \in LinkRests,
          n \in 0..Len(PostLinkLines) :
        /\ op' = "link_tokens"
        /\ args' = [stages |-> ("LINK" :> LinkStage(with_probe_objects, rest, n)),
                    sources |-> ProbeSources]
        /\ ret' = link_tokens(args'.stages, ProbeSources)

Call_post_link_lines ==
    /\ op = "idle"
    /\ \E with_probe_objects \in BOOLEAN, rest \in LinkRests,
          n \in 0..Len(PostLinkLines) :
        /\ op' = "post_link_lines"
        /\ args' = [stages |-> ("LINK" :> LinkStage(with_probe_objects, rest, n)),
                    sources |-> ProbeSources]
        /\ ret' = post_link_lines(args'.stages, ProbeSources)

Call_lines_between ==
    /\ op = "idle"
    /\ \E output_lines \in SeqsUpTo(LogLinePool, MaxLines), has_end \in BOOLEAN :
        LET start_phrase == IF has_end THEN S_CompilingSketch ELSE S_Linking
            end_phrase == IF has_end THEN S_CompilingLibraries ELSE <<>>
        IN  /\ op' = "lines_between"
            /\ args' = [output_lines |-> output_lines,
                        start_phrase |-> start_phrase,
                        has_end |-> has_end, end_phrase |-> end_phrase]
            /\ ret' = lines_between(output_lines, start_phrase, has_end, end_phrase)

Call_parse_linker_commands ==
    /\ op = "idle"
    /\ \E output_lines \in SeqsUpTo(LogLinePool, MaxLines) :
        /\ op' = "parse_linker_commands"
        /\ args' = [output_lines |-> output_lines]
        /\ ret' = parse_linker_commands(output_lines)

Call_sketch_cache ==
    /\ op = "idle"
    /\ \E present \in BOOLEAN,
          lines \in SeqsUpTo({CoreLines[i] : i \in 1..Len(CoreLines)}, MaxLines) :
        /\ op' = "sketch_cache"
        /\ args' = [stages |-> IF present THEN ("CORE" :> lines)
                               ELSE ("LINK" :> lines)]
        /\ ret' = sketch_cache(args'.stages)

Call_archive_tokens ==
    /\ op = "idle"
    /\ \E present \in BOOLEAN,
          lines \in SeqsUpTo({CoreLines[i] : i \in 1..Len(CoreLines)}, MaxLines) :
        /\ op' = "archive_tokens"
        /\ args' = [stages |-> IF present THEN ("CORE" :> lines)
                               ELSE ("LINK" :> lines)]
        /\ ret' = archive_tokens(args'.stages)

Call_parse_compilation_commands ==
    /\ op = "idle"
    /\ \E c_lines \in SeqsUpTo({CCompileLines[i] : i \in 1..Len(CCompileLines)},
                               MaxCompileLines) :
        /\ op' = "parse_compilation_commands"
        /\ args' = [output_lines |-> CompileLog(c_lines),
                    mapping |-> make_sketch(MainDirectory)]
        /\ ret' = parse_compilation_commands(args'.output_lines, args'.mapping)

Call_main ==
    /\ op = "idle"
    /\ \E sketch_made \in BOOLEAN, compiled \in BOOLEAN, copied \in BOOLEAN,
          c_form \in {"usual", "file_last", "absent"},
          l_form \in {"usual", "bare", "no_core", "no_marker"},
          n \in 0..1, final_newline \in BOOLEAN :
        /\ op' = "main"
        /\ args' = [sketch |-> IF sketch_made
                               THEN Ok(make_sketch(MainDirectory))
                               ELSE Raise("OSError", <<"touch">>),
                    compiled |-> IF compiled
                                 THEN Ok(MainLog(c_form, l_form, n, final_newline))
                                 ELSE Raise("CalledProcessError", <<"arduino-cli">>),
                    copied |-> IF copied THEN Ok(<<>>)
                               ELSE Raise("OSError", <<"copy2">>)]
        /\ ret' = Ok(main(args'.sketch, args'.compiled, args'.copied))

Next ==
    \/ Call_filter_by_flags
    \/ Call_filter_by_filenames
    \/ Call_sort_line
    \/ Call_identify_line
    \/ Call_build_tokens
    \/ Call_link_tokens
    \/ Call_post_link_lines
    \/ Call_lines_between
    \/ Call_parse_linker_commands
    \/ Call_sketch_cache
    \/ Call_archive_tokens
    \/ Call_parse_compilation_commands
    \/ Call_main

Spec == Init /\ [][Next]_vars

---------------------------------------------------------------------------
(* C1.  filter_by_flags, negate = false, drops a token iff the token is a  *)
(* recognized flag (its first two characters are a key of the table) or it *)
(* immediately follows a flag token that consumes one argument (value      *)
(* true, or a predicate that holds on that preceding token); every other   *)
(* token is kept; negate = true keeps exactly the dropped tokens.  A flag  *)
(* whose value is false does not drop the token after it.                  *)

C1_IsFlag(flags, token) == SliceTo(token, 2) \in DOMAIN flags

C1_Consumes(flags, token) ==
    /\ C1_IsFlag(flags, token)
    /\ LET check == flags[SliceTo(token, 2)]
       IN  IF check.callable THEN token = check.eq ELSE check.truth

C1_Dropped(flags, tokens, i) ==
    \/ C1_IsFlag(flags, tokens[i])
    \/ i > 1 /\ C1_Consumes(flags, tokens[i - 1])

C1_FlagFilterDropsFlagsAndArguments ==
    op = "filter_by_flags" =>
        /\ ret.kind = "ok"
        /\ ret.val =
            Pick(args.tokens,
                 Positions([i \in 1..Len(args.tokens) |->
                               C1_Dropped(args.flags, args.tokens, i) = args.negate],
                           1, Len(args.tokens)))

\* a token after a false-valued flag is kept, and a token after -o is dropped
C1_Witness ==
    /\ op = "filter_by_flags"
    /\ args.flags = BuildCleanFlags
    /\ ~args.negate
    /\ args.tokens = <<S_c, <<"a">>, S_o>>
    /\ ret.val = << <<"a">> >>

---------------------------------------------------------------------------
(* C2.  For every token sequence t and flag table f, the results of        *)
(* filter_by_flags(f, t, negate=false) and filter_by_flags(f, t,           *)
(* negate=true) are complementary: every position of t is in exactly one   *)
(* of them, each keeps the original order, and merging them in order gives *)
(* t.  The same holds for filter_by_filenames and every pattern set.       *)

Range(s) == {s[i] : i \in 1..Len(s)}

Increasing(idx) == \A i \in 1..(Len(idx) - 1) : idx[i] < idx[i + 1]

RECURSIVE IsMerge(_, _, _)
\* t is an order-preserving merge of a and b
IsMerge(t, a, b) ==
    IF t = <<>> THEN a = <<>> /\ b = <<>>
    ELSE \/ a # <<>> /\ Head(a) = Head(t) /\ IsMerge(Tail(t), Tail(a), b)
         \/ b # <<>> /\ Head(b) = Head(t) /\ IsMerge(Tail(t), a, Tail(b))

C2_Complementary(t, kept, dropped) ==
    /\ Range(kept) \cup Range(dropped) = 1..Len(t)
    /\ Range(kept) \cap Range(dropped) = {}
    /\ Increasing(kept) /\ Increasing(dropped)
    /\ IsMerge(t, Pick(t, kept), Pick(t, dropped))

C2_FiltersPartitionTheTokens ==
    /\ op = "filter_by_flags" =>
        /\ C2_Complementary(args.tokens,
                            flags_kept(args.flags, args.tokens, FALSE),
                            flags_kept(args.flags, args.tokens, TRUE))
        /\ ret.val = Pick(args.tokens,
                          flags_kept(args.flags, args.tokens, args.negate))
    /\ op = "filter_by_filenames" =>
        /\ C2_Complementary(args.tokens,
                            filenames_kept(args.filenames, args.tokens, FALSE),
                            filenames_kept(args.filenames, args.tokens, TRUE))
        /\ ret.val = Pick(args.tokens,
                          filenames_kept(args.filenames, args.tokens, args.negate))

\* a call under negate whose result and whose complement are both non-empty
C2_Witness ==
    /\ op = "filter_by_flags"
    /\ args.negate
    /\ args.flags = BuildSortFlags
    /\ args.tokens = <<S_I, <<"a">>, S_c>>
    /\ ret.val = <<S_I, <<"a">> >>
    /\ filter_by_flags(args.flags, args.tokens, FALSE) = <<S_c>>

---------------------------------------------------------------------------
(* C3.  As stated: for every line L that tokenizes successfully,           *)
(* sort_line(L) with the identity clean and sort filters returns           *)
(* (head, rest, []) where head followed by rest is the token sequence of   *)
(* L.  A line that tokenizes to no token (an empty or blank line) makes    *)
(* sort_line raise instead.                                                *)

C3_IdentityCall ==
    /\ op = "sort_line"
    /\ args.clean = NoFilter
    /\ args.sort = NoFilter
    /\ safe_split(args.line, FALSE).kind = "ok"

C3_Original_EveryTokenizableLine ==
    C3_IdentityCall =>
        /\ ret.kind = "ok"
        /\ <<ret.val[1]>> \o ret.val[2] = safe_split(args.line, FALSE).val
        /\ ret.val[3] = <<>>

(* C3, amended.  For every line L that tokenizes successfully to at least  *)
(* one token, sort_line(L) with the identity clean and sort filters        *)
(* returns (head, rest, []) where head followed by rest is the token       *)
(* sequence of L; a line that tokenizes to no token raises                 *)
(* ArduinoCLIException.                                                    *)
C3_IdentitySortLineSplitsHeadAndRest ==
    C3_IdentityCall =>
        LET tokens == safe_split(args.line, FALSE).val
        IN  IF tokens = <<>>
            THEN ret.kind = "raise" /\ ret.exc = "ArduinoCLIException"
            ELSE /\ ret.kind = "ok"
                 /\ Len(ret.val) = 3
                 /\ <<ret.val[1]>> \o ret.val[2] = tokens
                 /\ ret.val[3] = <<>>

\* an escaped blank as the head, and one more token
C3_Witness ==
    /\ C3_IdentityCall
    /\ args.line = <<"\\", " ", " ", "c">>
    /\ ret = Ok(<< <<" ">>, << <<"c">> >>, <<>> >>)

---------------------------------------------------------------------------
(* C4.  sort_line always returns the first token of the tokenized line,    *)
(* verbatim, as the head, for every clean filter and sort filter: the      *)
(* clean filter is applied only to the tokens after the first.             *)

C4_HeadIsFirstToken ==
    (op = "sort_line" /\ ret.kind = "ok") =>
        ret.val[1] = safe_split(args.line, FALSE).val[1]

---------------------------------------------------------------------------
(* C5.  identify_line has exactly three outcomes, decided by the number of *)
(* lines of the requested stage that satisfy the predicate: no match (also *)
(* when the stage is absent from the stage map) raises                     *)
(* MissingStageException for that stage; two or more matches with          *)
(* single=true raise MultipleInvocationException and return no line;       *)
(* otherwise the first matching line of the stage is returned.             *)

C5_StageLines ==
    IF args.stage \in DOMAIN args.stages THEN args.stages[args.stage] ELSE <<>>

C5_Matches ==
    {i \in 1..Len(C5_StageLines) : match_all(args.patterns, C5_StageLines[i])}

C5_IdentifyLineOutcomes ==
    op = "identify_line" =>
        IF C5_Matches = {}
        THEN /\ ret.kind = "raise"
             /\ ret.exc = "MissingStageException"
             /\ ret.arg = <<args.stage>>
        ELSE IF args.single /\ Cardinality(C5_Matches) >= 2
        THEN ret.kind = "raise" /\ ret.exc = "MultipleInvocationException"
        ELSE /\ ret.kind = "ok"
             /\ \E i \in C5_Matches :
                    /\ \A j \in C5_Matches : i <= j
                    /\ ret.val = C5_StageLines[i]

\* two lines of the stage match and single is set
C5_Witness ==
    /\ op = "identify_line"
    /\ args.single
    /\ Cardinality(C5_Matches) = 2
    /\ ret.kind = "raise"
    /\ ret.exc = "MultipleInvocationException"

---------------------------------------------------------------------------
(* C6.  For each source kind, build_tokens returns, from that kind's       *)
(* compile line: the tool, equal to the line's first token; the include    *)
(* paths, equal to the arguments of the line's -I options in order, each   *)
(* with exactly its -I marker removed (attached -Ipath and separated       *)
(* -I path); the flags, equal to the remaining tokens in order except -c,  *)
(* -o with its argument, and the tokens naming the probe source files.     *)
(* For `avr-gcc -c -o special_input_file.c.o -Iinclude1 -Iinclude2         *)
(* special_input_file.c` the C kind yields tool avr-gcc, include paths     *)
(* [include1, include2] and flags [].                                      *)

\* the tokens of the compile line of a kind: the line that names its file
C6_Tokens(source) ==
    LET lines == args.stages["COMPILATION"]
        name == real_source_names(args.sources)[source]
        i == CHOOSE i \in 1..Len(lines) :
                 \E k \in 1..Len(shlex_split(lines[i]).val) :
                     shlex_split(lines[i]).val[k] = name
    IN  shlex_split(lines[i]).val

RECURSIVE C6_IncludeArgs(_)
C6_IncludeArgs(tokens) ==
    IF tokens = <<>> THEN <<>>
    ELSE IF Head(tokens) = S_I /\ Len(tokens) >= 2
        THEN <<tokens[2]>> \o C6_IncludeArgs(Tail(Tail(tokens)))
    ELSE IF StartsWith(Head(tokens), S_I) /\ Len(Head(tokens)) > 2
        THEN <<SliceFrom(Head(tokens), 2)>> \o C6_IncludeArgs(Tail(tokens))
    ELSE C6_IncludeArgs(Tail(tokens))

C6_SourceFiles ==
    {real_source_names(args.sources)[k] : k \in DOMAIN args.sources}

RECURSIVE C6_Flags(_)
C6_Flags(tokens) ==
    IF tokens = <<>> THEN <<>>
    ELSE IF Head(tokens) \in {S_I, S_o} /\ Len(tokens) >= 2
        THEN C6_Flags(Tail(Tail(tokens)))
    ELSE IF \/ Head(tokens) \in {S_c, S_o, S_I}
            \/ StartsWith(Head(tokens), S_I)
            \/ path_name(Head(tokens)) \in C6_SourceFiles
        THEN C6_Flags(Tail(tokens))
    ELSE <<Head(tokens)>> \o C6_Flags(Tail(tokens))

C6_BuildTokensRecipe ==
    op = "build_tokens" =>
        /\ ret.kind = "ok"
        /\ \A source \in Source :
            /\ ret.val[1][source] = C6_Tokens(source)[1]
            /\ ret.val[2][source] = C6_IncludeArgs(Tail(C6_Tokens(source)))
            /\ ret.val[3][source] = C6_Flags(Tail(C6_Tokens(source)))
        /\ args.stages["COMPILATION"][2] = ExampleCompileLine =>
            /\ ret.val[1]["C"] = T_avr_gcc
            /\ ret.val[2]["C"] = <<T_include1, T_include2>>
            /\ ret.val[3]["C"] = <<>>

---------------------------------------------------------------------------
(* C7.  As stated: given a link stage made of one link line                *)
(* `<linker> -o <elf> <objects> <libraries>` followed by post-link lines,  *)
(* link_tokens yields the linker as the first token, link objects equal to *)
(* the .o tokens named on the link line in order, link libraries equal to  *)
(* the archive, -l and group-marker tokens in order; and post_link_lines   *)
(* returns exactly the lines that follow the link line.                    *)

C7_LinkLines == args.stages["LINK"]

C7_Tokens == shlex_split(C7_LinkLines[1]).val

C7_Select(tokens, Keep(_)) ==
    Pick(tokens, Positions([i \in 1..Len(tokens) |-> Keep(tokens[i])],
                           1, Len(tokens)))

C7_IsObject(token) == EndsWith(token, S_dot_o)

C7_IsLibrary(token) ==
    \/ EndsWith(token, <<".", "a">>)
    \/ StartsWith(token, <<"-", "l">>)
    \/ EndsWith(token, T_start_group)
    \/ EndsWith(token, T_end_group)

\* the object files of the sources: <real name>.o
C7_SourceObjects ==
    {real_source_names(args.sources)[k] \o S_dot_o : k \in DOMAIN args.sources}

C7_IsSourceObject(token) == path_name(token) \in C7_SourceObjects

C7_IsOtherObject(token) == C7_IsObject(token) /\ ~C7_IsSourceObject(token)

\* the link line names every source object
C7_NamesSourceObjects ==
    \A o \in C7_SourceObjects :
        \E i \in 1..Len(C7_Tokens) : path_name(C7_Tokens[i]) = o

C7_Original_LinkRecipe ==
    /\ op = "link_tokens" =>
        /\ ret.kind = "ok"
        /\ ret.val[1] = C7_Tokens[1]
        /\ ret.val[3] = C7_Select(Tail(C7_Tokens), C7_IsObject)
        /\ ret.val[4] = C7_Select(Tail(C7_Tokens), C7_IsLibrary)
    /\ op = "post_link_lines" =>
        /\ ret.kind = "ok"
        /\ ret.val = Tail(C7_LinkLines)

(* C7, amended.  Given a link stage whose only line naming every source    *)
(* object file (<real name>.o) is the link line                            *)
(* `<linker> -o <elf> <objects> <libraries>`, followed by post-link lines, *)
(* link_tokens yields the linker as the first token, link objects equal to *)
(* the .o tokens of the link line other than the source objects, in order, *)
(* link libraries equal to the tokens ending in .a, starting with -l or     *)
(* ending in a group marker, in order, and post_link_lines returns exactly *)
(* the lines that follow the link line; a link line that does not name     *)
(* every source object is not found, and both fail with                    *)
(* MissingStageException for the link stage.                               *)
C7_LinkRecipe ==
    (op \in {"link_tokens", "post_link_lines"}) =>
        IF C7_NamesSourceObjects
        THEN /\ ret.kind = "ok"
             /\ op = "link_tokens" =>
                 /\ ret.val[1] = C7_Tokens[1]
                 /\ ret.val[3] = C7_Select(Tail(C7_Tokens), C7_IsOtherObject)
                 /\ ret.val[4] = C7_Select(Tail(C7_Tokens), C7_IsLibrary)
             /\ op = "post_link_lines" => ret.val = Tail(C7_LinkLines)
        ELSE /\ ret.kind = "raise"
             /\ ret.exc = "MissingStageException"
             /\ ret.arg = <<"LINK">>

\* the link line of the scenario, with the source objects on it
C7_Witness ==
    /\ op = "link_tokens"
    /\ C7_LinkLines =
           <<LinkLine(T_avr_gcc, ProbeObjects, ExampleLinkRest), PostLinkLines[1]>>
    /\ ret.kind = "ok"
    /\ ret.val[1] = T_avr_gcc
    /\ ret.val[3] = <<T_a_o, T_b_o>>
    /\ ret.val[4] = <<S_core_a, T_lm, T_start_group, T_end_group>>

---------------------------------------------------------------------------
(* C8.  A log with no `Linking everything together...` line makes link     *)
(* extraction fail with MissingStageException, never with a generic index  *)
(* or value error; the same holds for lines_between whenever its start or  *)
(* end marker is absent.                                                   *)

C8_MissingMarkerRaisesMissingStage ==
    /\ (op = "parse_linker_commands" /\ S_Linking \notin Range(args.output_lines))
        => (ret.kind = "raise" /\ ret.exc = "MissingStageException")
    /\ (/\ op = "lines_between"
        /\ \/ args.start_phrase \notin Range(args.output_lines)
           \/ args.has_end /\ args.end_phrase \notin Range(args.output_lines))
        => (ret.kind = "raise" /\ ret.exc = "MissingStageException")

---------------------------------------------------------------------------
(* C9.  lines_between(lines, start, end) returns exactly the lines         *)
(* strictly between the first occurrence of the start phrase and the first *)
(* occurrence of the end phrase after that start occurrence; an earlier    *)
(* occurrence of the end phrase is ignored.                                *)

\* the first position after `from` that holds x, 0 when there is none
C9_FirstAfter(xs, x, from) ==
    IF \E i \in (from + 1)..Len(xs) : xs[i] = x
    THEN CHOOSE i \in (from + 1)..Len(xs) :
             xs[i] = x /\ \A j \in (from + 1)..(i - 1) : xs[j] # x
    ELSE 0

C9_LinesBetweenFirstStartAndNextEnd ==
    LET start == C9_FirstAfter(args.output_lines, args.start_phrase, 0)
        stop == C9_FirstAfter(args.output_lines, args.end_phrase, start)
    IN  (op = "lines_between" /\ args.has_end /\ start > 0 /\ stop > 0) =>
            /\ ret.kind = "ok"
            /\ ret.val = SubSeq(args.output_lines, start + 1, stop - 1)

---------------------------------------------------------------------------
(* C10.  When no end phrase is given, lines_between returns every line     *)
(* after the start marker up to and including the last line of the log.    *)

C10_NoEndRunsToLastLine ==
    LET start == C9_FirstAfter(args.output_lines, args.start_phrase, 0)
    IN  (op = "lines_between" /\ ~args.has_end /\ start > 0) =>
            /\ ret.kind = "ok"
            /\ ret.val = SubSeq(args.output_lines, start + 1,
                                Len(args.output_lines))

---------------------------------------------------------------------------
(* C11.  As stated: main returns 0 if and only if sketch generation, the   *)
(* toolchain run, compile parsing, link parsing and the archive copy all   *)
(* succeed; on a failure of any of these steps it returns a non-zero       *)
(* status after writing a diagnostic message to standard error, and the    *)
(* failure is never swallowed into a zero exit.                            *)

C11_OutputLines == str_split(args.compiled.val, "\n")

\* the five steps succeed
C11_StepsSucceed ==
    /\ args.sketch.kind = "ok"
    /\ args.compiled.kind = "ok"
    /\ parse_compilation_commands(C11_OutputLines, args.sketch.val).kind = "ok"
    /\ parse_linker_commands(C11_OutputLines).kind = "ok"
    /\ args.copied.kind = "ok"

C11_Original_ZeroIffStepsSucceed ==
    op = "main" =>
        /\ ret.val.status = 0 <=> C11_StepsSucceed
        /\ ~C11_StepsSucceed => (ret.val.status # 0 /\ ret.val.stderr # <<>>)

(* C11, amended.  main returns 0 if and only if sketch generation, the     *)
(* toolchain run, compile parsing, link parsing and the archive copy all   *)
(* succeed and link parsing left at least one linker argument to print;    *)
(* in every other case it returns a non-zero status after writing a        *)
(* diagnostic message to standard error, and a zero exit writes none.      *)
C11_ZeroIffStepsSucceedAndResultPrinted ==
    op = "main" =>
        /\ ret.val.status = 0 <=>
               /\ C11_StepsSucceed
               /\ parse_linker_commands(C11_OutputLines).val[2] # <<>>
        /\ ret.val.status # 0 => ret.val.stderr # <<>>
        /\ ret.val.status = 0 => ret.val.stderr = <<>>

\* link parsing fails on a log whose last line is the link line, the other
\* steps succeed, and main reports it
C11_Witness ==
    /\ op = "main"
    /\ args.sketch.kind = "ok"
    /\ args.compiled.kind = "ok"
    /\ args.copied.kind = "ok"
    /\ parse_compilation_commands(C11_OutputLines, args.sketch.val).kind = "ok"
    /\ parse_linker_commands(C11_OutputLines).kind = "raise"
    /\ ret.val.status = 1
    /\ ret.val.stderr # <<>>

---------------------------------------------------------------------------
(* C12.  build_tokens identifies a source kind's compile line as the       *)
(* unique compilation-stage line in which that source's real filename (for *)
(* the sketch entry unit, its name with .cpp appended) is followed by      *)
(* whitespace or by the end of the line: a line that ends with the         *)
(* filename is identified, and a line where the filename is only a prefix  *)
(* of a longer name is not.  So when every kind has exactly one such line, *)
(* build_tokens succeeds and takes each kind's tool from that line, and    *)
(* when some kind has none it fails with MissingStageException.            *)

\* name occurs in line followed by whitespace or by the end of the line
C12_Bounded(line, name) ==
    \E i \in 0..(Len(line) - Len(name)) :
        /\ SubSeq(line, i + 1, i + Len(name)) = name
        /\ \/ i + Len(name) = Len(line)
           \/ line[i + Len(name) + 1] \in Whitespace

C12_Lines == args.stages["COMPILATION"]

C12_Hits(source) ==
    {i \in 1..Len(C12_Lines) :
        C12_Bounded(C12_Lines[i], real_source_names(args.sources)[source])}

C12_CompileLineIsBoundedByBlankOrEnd ==
    op = "build_tokens" =>
        /\ (\A source \in Source : Cardinality(C12_Hits(source)) = 1) =>
            /\ ret.kind = "ok"
            /\ \A source \in Source :
                   \A i \in C12_Hits(source) :
                       ret.val[1][source] = shlex_split(C12_Lines[i]).val[1]
        /\ (\E source \in Source : C12_Hits(source) = {}) =>
            /\ ret.kind = "raise"
            /\ ret.exc = "MissingStageException"

---------------------------------------------------------------------------
(* C13.  link_tokens places every token of the link line after the linker, *)
(* other than -o with its argument and the per-source object filenames, in *)
(* exactly one of link flags, link objects and link libraries: objects are *)
(* exactly the tokens ending in .o, libraries are exactly the tokens       *)
(* ending in .a, starting with -l, or equal to --start-group or            *)
(* --end-group, and flags are all other tokens; no token is reported in    *)
(* two buckets or lost, and each bucket keeps original order.              *)

RECURSIVE C13_WithoutOutput(_)
\* the tokens without -o and its argument
C13_WithoutOutput(tokens) ==
    IF tokens = <<>> THEN <<>>
    ELSE IF Head(tokens) = S_o THEN C13_WithoutOutput(Tail(Tail(tokens)))
    ELSE <<Head(tokens)>> \o C13_WithoutOutput(Tail(tokens))

C13_IsNotSourceObject(token) == ~C7_IsSourceObject(token)

\* the tokens link_tokens has to place
C13_Tokens ==
    C7_Select(C13_WithoutOutput(Tail(C7_Tokens)), C13_IsNotSourceObject)

C13_IsLibrary(token) ==
    \/ EndsWith(token, <<".", "a">>)
    \/ StartsWith(token, <<"-", "l">>)
    \/ token \in {T_start_group, T_end_group}

C13_IsFlag(token) == ~C7_IsObject(token) /\ ~C13_IsLibrary(token)

C13_LinkBucketsPartitionTheTokens ==
    (op = "link_tokens" /\ ret.kind = "ok") =>
        /\ ret.val[2] = C7_Select(C13_Tokens, C13_IsFlag)
        /\ ret.val[3] = C7_Select(C13_Tokens, C7_IsObject)
        /\ ret.val[4] = C7_Select(C13_Tokens, C13_IsLibrary)
        /\ Len(ret.val[2]) + Len(ret.val[3]) + Len(ret.val[4]) = Len(C13_Tokens)

---------------------------------------------------------------------------
(* C14.  sketch_cache returns the grandparent directory of the core.a      *)
(* archive path taken from the last core-stage line that ends in core.a,   *)
(* whenever the core stage contains at least one such line; it fails with  *)
(* MissingStageException for the core stage when the core stage is absent  *)
(* or empty.                                                               *)

C14_CoreLines ==
    IF "CORE" \in DOMAIN args.stages THEN args.stages["CORE"] ELSE <<>>

\* the core-stage lines that end in core.a
C14_Ending ==
    {i \in 1..Len(C14_CoreLines) : EndsWith(C14_CoreLines[i], S_core_a)}

\* the last token of a line: the archive path of a line that ends in core.a
C14_ArchivePath(line) ==
    shlex_split(line).val[Len(shlex_split(line).val)]

C14_CacheIsGrandparentOfLastArchiveLine ==
    op = "sketch_cache" =>
        /\ C14_CoreLines = <<>> =>
            /\ ret.kind = "raise"
            /\ ret.exc = "MissingStageException"
            /\ ret.arg = <<"CORE">>
        /\ C14_Ending # {} =>
            /\ ret.kind = "ok"
            /\ \E i \in C14_Ending :
                /\ \A j \in C14_Ending : j <= i
                /\ ret.val = path_parent(path_parent(
                                 C14_ArchivePath(C14_CoreLines[i])))

---------------------------------------------------------------------------
(* C15.  archive_tokens accepts a core stage with one or several lines     *)
(* matching core\.a and returns, from the first such line, the archiver    *)
(* equal to that line's first token and the archive flags equal to, in     *)
(* original order, the remaining tokens that are neither the archive name  *)
(* nor a .o object file; it fails loudly when the sort pass leaves a        *)
(* non-empty dropped set.                                                  *)

\* the core-stage lines that match core\.a
C15_Matching ==
    {i \in 1..Len(C14_CoreLines) : Contains(C14_CoreLines[i], S_core_a)}

C15_IsFlag(token) == ~EndsWith(token, S_core_a) /\ ~EndsWith(token, S_dot_o)

C15_ArchiveRecipeOfFirstMatchingLine ==
    (op = "archive_tokens" /\ C15_Matching # {}) =>
        \E i \in C15_Matching :
            /\ \A j \in C15_Matching : i <= j
            /\ ret.kind = "ok"
            /\ ret.val[1] = shlex_split(C14_CoreLines[i]).val[1]
            /\ ret.val[2] = C7_Select(Tail(shlex_split(C14_CoreLines[i]).val),
                                      C15_IsFlag)

---------------------------------------------------------------------------
(* C16.  When a search in the log finds nothing, the parse functions fail  *)
(* with their dedicated error: parse_compilation_commands raises 'Failed   *)
(* to find compilation line for <filename>' when no compilation-stage line *)
(* contains '<filename>.o' for a mapped source, and parse_linker_commands  *)
(* raises 'Failed to find core in linking line' when no token of the link  *)
(* line ends in core.a.                                                    *)

\* the lines between the compilation markers
C16_CompilationLines ==
    SubSeq(args.output_lines,
           C9_FirstAfter(args.output_lines, S_CompilingSketch, 0) + 1,
           C9_FirstAfter(args.output_lines, S_CompilingLibraries, 0) - 1)

\* a mapped source has no line containing '<filename>.o'
C16_NoCompilationLine ==
    \E i \in 1..Len(args.mapping) :
        \A k \in 1..Len(C16_CompilationLines) :
            ~Contains(C16_CompilationLines[k],
                      path_name(args.mapping[i][2]) \o S_dot_o)

\* the link line: the line after the link marker
C16_LinkLine ==
    args.output_lines[C9_FirstAfter(args.output_lines, S_Linking, 0) + 1]

\* the log has a link line, which tokenizes, and no token ends in core.a
C16_NoCoreInLinkLine ==
    /\ C9_FirstAfter(args.output_lines, S_Linking, 0) > 0
    /\ C9_FirstAfter(args.output_lines, S_Linking, 0) + 1 < Len(args.output_lines)
    /\ shlex_split(C16_LinkLine).kind = "ok"
    /\ \A k \in 1..Len(shlex_split(C16_LinkLine).val) :
           ~EndsWith(shlex_split(C16_LinkLine).val[k], S_core_a)

C16_EmptySearchRaisesDedicatedError ==
    /\ (op = "parse_compilation_commands" /\ C16_NoCompilationLine) =>
        /\ ret.kind = "raise"
        /\ ret.exc = "Exception"
        /\ ret.arg = <<"Failed to find compilation line for">>
    /\ (op = "parse_linker_commands" /\ C16_NoCoreInLinkLine) =>
        /\ ret.kind = "raise"
        /\ ret.exc = "Exception"
        /\ ret.arg = <<"Failed to find core in linking line">>

---------------------------------------------------------------------------
(* C17.  As stated: parse_compilation_commands returns a command for a     *)
(* source type only when the tokens left after removing -c, -o and the     *)
(* tokens ending in the source filename or in its .o name are equal to all *)
(* but the last three tokens of the shell-split compile line; on any       *)
(* mismatch it fails with an assertion error instead of returning either   *)
(* derivation.                                                             *)

\* the file name of the i-th mapped source
C17_Filename(i) == path_name(args.mapping[i][2])

\* the tokens of the compile line of the i-th mapped source: the first
\* compilation line that contains '<filename>.o'
C17_Tokens(i) ==
    LET k == CHOOSE k \in 1..Len(C16_CompilationLines) :
                 /\ Contains(C16_CompilationLines[k], C17_Filename(i) \o S_dot_o)
                 /\ \A j \in 1..(k - 1) :
                        ~Contains(C16_CompilationLines[j],
                                  C17_Filename(i) \o S_dot_o)
    IN  shlex_split(C16_CompilationLines[k]).val

\* the tokens left after removing -c, -o, the file and its object
C17_Left(i) ==
    Pick(C17_Tokens(i),
         Positions([k \in 1..Len(C17_Tokens(i)) |->
                       /\ C17_Tokens(i)[k] \notin {S_c, S_o}
                       /\ ~EndsWith(C17_Tokens(i)[k], C17_Filename(i))
                       /\ ~EndsWith(C17_Tokens(i)[k],
                                    C17_Filename(i) \o S_dot_o)],
                   1, Len(C17_Tokens(i))))

\* all but the last three tokens
C17_AllButLastThree(i) == SubSeq(C17_Tokens(i), 1, Len(C17_Tokens(i)) - 3)

\* the first token, then the third token up to the fourth from the end
C17_AllButSecondAndLastThree(i) ==
    SubSeq(C17_Tokens(i), 1, 1) \o SubSeq(C17_Tokens(i), 3, Len(C17_Tokens(i)) - 3)

===========================================================================
